---- MODULE Spec2Model ----
(***************************************************************************)
(* Shopify order synchronisation (syncOrders / performInitialSync /        *)
(* processBatch in lib/services/sync-orders, the store operations in       *)
(* lib/supabase/operations) as a state machine.                            *)
(*                                                                         *)
(* Every `await` of the orchestrator is one step of an invocation, so a    *)
(* process termination (Crash) can fall between any two of them.           *)
(* Conventions:                                                            *)
(*   - a cursor is the feed position of the last order of a page; the      *)
(*     local `cursor = undefined` and the column `last_cursor = NULL` are  *)
(*     both NoCursor;                                                      *)
(*   - time is a logical clock of TicksPerSec ticks per second;            *)
(*   - error_message NULL is the string "none".                            *)
(***************************************************************************)
EXTENDS Integers, FiniteSets, Sequences, TLC

\* ------------------------------------------------------------ bounds
NumOrders == 4          \* orders that exist upstream
NumTxRows == 2          \* rows of transactions the readers see
NumDays == 3            \* calendar days a reader can be asked about
PageSize == 2           \* `first: 250`, scaled down
MaxTime == 2            \* the clock stops here
TicksPerSec == 2        \* sub-second resolution of the clock

MaxCount == 5           \* the counts and logs of a run are kept up to here
NoCursor == 0           \* cursor undefined / last_cursor NULL
NullTs == -1            \* getLastUpdatedAt() returning null

Orders == 1..NumOrders
Procs == {"p1", "p2"}

\* ------------------------------------------------------------ upstream records
\* The shop's orders, in feed order. The pattern repeats every four orders:
\* a live order with two transactions, a test order with one, an order
\* created before the backfill window with one, a live order with none.
IsTest(o) == o % 4 = 2
Recent(o) == o % 4 # 3
NumTx(o) == IF o % 4 = 1 THEN 2 ELSE IF o % 4 = 0 THEN 0 ELSE 1
TxOf(o) == {<<o, j>> : j \in 1..NumTx(o)}

VARIABLES
  syncState,      \* the sync_state row of entity_type 'orders'
  orders,         \* rows of table orders
  transactions,   \* rows of table transactions
  now,            \* the clock
  upstream,       \* upstream[o]: updatedAt and channel of order o in the shop
  run,            \* run[p]: locals and position of invocation p of syncOrders
  result,         \* result[p]: the SyncResult the invocation returned
  attempt,        \* history: the attempt that the persisted cursor belongs to
  call            \* a call of a reader or of the state tracker: arguments and result

syncVars == <<syncState, orders, transactions, now, upstream, run, result, attempt>>
vars == <<syncState, orders, transactions, now, upstream, run, result, attempt, call>>

\* ------------------------------------------------------------ helpers
Max(S) == CHOOSE x \in S : \A y \in S : y <= x
Min(S) == CHOOSE x \in S : \A y \in S : x <= y

\* The counters and logs of a run, kept up to MaxCount; a run against a feed
\* whose pages advance stays below it.
Count(n) == IF n > MaxCount THEN MaxCount ELSE n
Log(seq, x) == IF Len(seq) < MaxCount THEN Append(seq, x) ELSE seq

RECURSIVE FirstN(_, _)
FirstN(S, n) ==
  IF n = 0 \/ S = {} THEN {} ELSE {Min(S)} \cup FirstN(S \ {Min(S)}, n - 1)

\* ------------------------------------------------------------ the feed
\* new Date(lastUpdatedAt).toISOString().split(".")[0] + "Z": the timestamp
\* without its sub-second part.
ToShopifyTimestamp(t) == (t \div TicksPerSec) * TicksPerSec

\* The orders a query selects: created_at:>='<one year ago>' in initial mode,
\* updated_at:>='<shopifyTimestamp>' in incremental mode.
Matches(mode, ts) ==
  {o \in Orders : IF mode = "initial" THEN Recent(o)
                                       ELSE upstream[o].updated_at >= ts}

\* orders(first: 250, after: cursor, query: query) { edges, pageInfo }
FetchPage(mode, ts, after) ==
  LET rest == {o \in Matches(mode, ts) : o > after}
      edges == FirstN(rest, PageSize)
  IN [edges |-> edges,
      hasNextPage |-> rest # edges,
      endCursor |-> IF edges = {} THEN NoCursor ELSE Max(edges)]

\* ------------------------------------------------------------ sync_state
\* getLastUpdatedAt: last_sync_at of the row, only if sync_status = 'completed'.
getLastUpdatedAt_anyStatus(row) == row.last_sync_at
getLastUpdatedAt(row) ==
  IF row.sync_status = "completed" THEN row.last_sync_at ELSE NullTs

\* currentSyncState?.sync_status === "running" && currentSyncState.last_cursor
IsResumable_failed(row) ==
  row.sync_status = "failed" /\ row.last_cursor # NoCursor
IsResumable(row) ==
  row.sync_status = "running" /\ row.last_cursor # NoCursor

\* updateSyncState: .update({...updates, last_sync_at: now}). A key whose value
\* is undefined is not sent, so the column keeps its value.
updateSyncState_clears(row, updates, t) ==
  [last_cursor |-> IF "last_cursor" \in DOMAIN updates
                     THEN updates.last_cursor ELSE NoCursor,
   sync_status |-> IF "sync_status" \in DOMAIN updates
                     THEN updates.sync_status ELSE row.sync_status,
   error_message |-> IF "error_message" \in DOMAIN updates
                     THEN updates.error_message ELSE row.error_message,
   last_sync_at |-> t]
updateSyncState(row, updates, t) ==
  [last_cursor |-> IF "last_cursor" \in DOMAIN updates
                      /\ updates.last_cursor # NoCursor
                     THEN updates.last_cursor ELSE row.last_cursor,
   sync_status |-> IF "sync_status" \in DOMAIN updates
                     THEN updates.sync_status ELSE row.sync_status,
   error_message |-> IF "error_message" \in DOMAIN updates
                     THEN updates.error_message ELSE row.error_message,
   last_sync_at |-> t]

\* What updateSyncState does when the store reports an error: it logs it and
\* returns false.
updateSyncStateOnError_throws == "throw"
updateSyncStateOnError == "false"

\* ------------------------------------------------------------ the store
\* BIGSERIAL ids: a new row gets an id above every id in the table (the gaps
\* a sequence leaves are not modelled).
NextId(rows) == IF rows = {} THEN 1 ELSE Max({r.id : r \in rows}) + 1

\* .upsert(rows, {onConflict: "shopify_order_id"}): a row whose key exists is
\* replaced and keeps its id; new rows get ids in batch order.
RECURSIVE UpsertOrderRows_ignoreDuplicates(_, _, _)
UpsertOrderRows_ignoreDuplicates(rows, batch, nodes) ==
  IF batch = {} THEN rows
  ELSE LET o == Min(batch)
           old == {r \in rows : r.shopify_order_id = o}
           row == [id |-> NextId(rows), shopify_order_id |-> o, test |-> IsTest(o),
                   updated_at |-> nodes[o].updated_at, channel |-> nodes[o].channel]
       IN UpsertOrderRows_ignoreDuplicates(IF old = {} THEN rows \cup {row} ELSE rows,
                                           batch \ {o}, nodes)
RECURSIVE UpsertOrderRows(_, _, _)
UpsertOrderRows(rows, batch, nodes) ==
  IF batch = {} THEN rows
  ELSE LET o == Min(batch)
           old == {r \in rows : r.shopify_order_id = o}
           id == IF old = {} THEN NextId(rows) ELSE (CHOOSE r \in old : TRUE).id
           row == [id |-> id, shopify_order_id |-> o, test |-> IsTest(o),
                   updated_at |-> nodes[o].updated_at, channel |-> nodes[o].channel]
       IN UpsertOrderRows((rows \ old) \cup {row}, batch \ {o}, nodes)

\* .upsert(rows, {onConflict: "shopify_transaction_id"})
RECURSIVE UpsertTransactionRows_ignoreDuplicates(_, _)
UpsertTransactionRows_ignoreDuplicates(rows, batch) ==
  IF batch = {} THEN rows
  ELSE LET t == CHOOSE x \in batch : TRUE
           old == {r \in rows : r.shopify_transaction_id = t.shopify_transaction_id}
           row == [id |-> NextId(rows), shopify_transaction_id |-> t.shopify_transaction_id,
                   order_id |-> t.order_id, channel |-> t.channel]
       IN UpsertTransactionRows_ignoreDuplicates(
            IF old = {} THEN rows \cup {row} ELSE rows, batch \ {t})
RECURSIVE UpsertTransactionRows(_, _)
UpsertTransactionRows(rows, batch) ==
  IF batch = {} THEN rows
  ELSE LET t == CHOOSE x \in batch :
                  \A y \in batch : x.shopify_transaction_id[1] < y.shopify_transaction_id[1]
                     \/ (x.shopify_transaction_id[1] = y.shopify_transaction_id[1]
                         /\ x.shopify_transaction_id[2] <= y.shopify_transaction_id[2])
           old == {r \in rows : r.shopify_transaction_id = t.shopify_transaction_id}
           id == IF old = {} THEN NextId(rows) ELSE (CHOOSE r \in old : TRUE).id
           row == [id |-> id, shopify_transaction_id |-> t.shopify_transaction_id,
                   order_id |-> t.order_id, channel |-> t.channel]
       IN UpsertTransactionRows((rows \ old) \cup {row}, batch \ {t})

\* getOrderIdMapByShopifyIds: shopify_order_id -> id, for the ids found.
getOrderIdMapByShopifyIds(rows, shopifyOrderIds) ==
  {<<r.shopify_order_id, r.id>> : r \in {x \in rows : x.shopify_order_id \in shopifyOrderIds}}

\* ------------------------------------------------------------ processBatch
\* First pass: the orders of the page that are not test orders.
OrdersToInsert_noTestFilter(edges) == edges
OrdersToInsert(edges) == {o \in edges : ~IsTest(o)}

TestOrdersSkipped(edges) == Cardinality({o \in edges : IsTest(o)})

\* Second pass: the transactions of the non-test orders whose id resolved.
TransactionsToInsert_unresolved(edges, orderIdMap, nodes) ==
  UNION {{[shopify_transaction_id |-> t,
           order_id |-> IF \E m \in orderIdMap : m[1] = o
                          THEN (CHOOSE m \in orderIdMap : m[1] = o)[2] ELSE 0,
           channel |-> nodes[o].channel]
          : t \in TxOf(o)} : o \in {x \in edges : ~IsTest(x)}}
\* The channel fields are those of the order as the page delivered it.
TransactionsToInsert(edges, orderIdMap, nodes) ==
  UNION {{[shopify_transaction_id |-> t, order_id |-> m[2],
           channel |-> nodes[m[1]].channel] : t \in TxOf(m[1])}
         : m \in {x \in orderIdMap : x[1] \in edges /\ ~IsTest(x[1])}}

\* ------------------------------------------------------------ initial state
InitRun ==
  [pc |-> "idle",
   mode |-> "none",              \* which function pages: syncOrders or performInitialSync
   queryTs |-> 0,                \* shopifyTimestamp of the incremental query
   cursor |-> NoCursor,
   hasNextPage |-> TRUE,
   totalOrders |-> 0,
   totalTransactions |-> 0,
   edges |-> {},                 \* response.orders.edges
   nodes |-> <<>>,               \* ... and the order each edge delivered
   rewrote |-> FALSE,            \* a stored transaction got other channel fields
   emptyPage |-> FALSE,          \* a page of this invocation had no edges
   pageInfo |-> [hasNextPage |-> FALSE, endCursor |-> NoCursor],
   ordersToInsert |-> {},
   orderIdMap |-> {},
   testOrdersSkipped |-> 0,
   errorMessage |-> "none",
   handler |-> "none",           \* the catch block that is running
   ordersOk |-> TRUE,            \* what upsertOrders returned for the page
   transactionsOk |-> TRUE,      \* what upsertTransactions returned for the page
   \* history of the invocation
   startState |-> [last_cursor |-> NoCursor, last_sync_at |-> 0,
                   sync_status |-> "completed", error_message |-> "none"],
   fetched |-> <<>>,             \* the `after` of every fetch issued
   resumed |-> FALSE,            \* took the resume branch
   fromCheckpoint |-> FALSE,     \* ... and the cursor was a checkpoint of `attempt`
   writeFailed |-> FALSE,        \* some upsert of the invocation returned false
   exit |-> "none",              \* how the page loop ended
   pages |-> 0,                  \* pages that went through processBatch
   lastEndCursor |-> NoCursor,   \* pageInfo.endCursor of the last such page
   lastCursorSeen |-> NoCursor,  \* last non-null endCursor among those pages
   statusWrites |-> <<>>,        \* the sync_status values the invocation stored
   requests |-> 0,               \* requests sent to the feed
   feedFailures |-> 0,           \* ... of which failed
   ordersWritten |-> 0,          \* order rows the invocation stored
   transactionsWritten |-> 0]    \* transaction rows the invocation stored

NoResult ==
  [returned |-> FALSE, success |-> FALSE, ordersProcessed |-> 0,
   transactionsProcessed |-> 0, error |-> "none"]

\* attempt: the query of the run that last started afresh, whether a
\* checkpoint of it was stored, the orders it and the runs that resumed it
\* wrote, and whether it stayed free of failed writes and of a resume from a
\* cursor that is not its own.
NoAttempt ==
  [mode |-> "none", ts |-> 0, checkpointed |-> FALSE, clean |-> TRUE, wrote |-> {}]

\* The state after the migration: INSERT INTO sync_state (entity_type,
\* sync_status) VALUES ('orders', 'completed'), last_sync_at DEFAULT NOW().
InitSync ==
  /\ syncState = [last_cursor |-> NoCursor, last_sync_at |-> 0,
                  sync_status |-> "completed", error_message |-> "none"]
  /\ orders = {}
  /\ transactions = {}
  /\ now = 0
  /\ upstream = [o \in Orders |-> [updated_at |-> 0, channel |-> "Online Store"]]
  /\ run = [p \in Procs |-> InitRun]
  /\ result = [p \in Procs |-> NoResult]
  /\ attempt = NoAttempt

NoCall == [fn |-> "none"]

Init == InitSync /\ call = NoCall

FetchErrors ==
  {"Shopify API request failed", "Failed to fetch orders from Shopify"}

Active(p) == run[p].pc \notin {"idle", "done", "crashed", "thrown"}

\* An exception raised inside a try block reaches that function's catch block.
Throw(r, msg) ==
  [r EXCEPT !.pc = "catch", !.errorMessage = msg,
            !.handler = IF r.mode = "initial" THEN "performInitialSync" ELSE "syncOrders"]

\* What the orchestrator does after a call to updateSyncState whose write did
\* not happen: carry on to `next`, unless updateSyncState raised.
AfterFailedUpdate(r, next) ==
  IF updateSyncStateOnError = "throw"
    THEN Throw(r, "sync state update failed")
    ELSE next

\* ------------------------------------------------------------ syncOrders
\* The trigger calls syncOrders(); the first getSyncState only feeds the log.
Start_rejectsWhenRunning(p) ==
  /\ ~Active(p)
  /\ syncState.sync_status # "running"
  /\ run' = [run EXCEPT ![p] = [InitRun EXCEPT !.pc = "getLast", !.startState = syncState]]
  /\ result' = [result EXCEPT ![p] = NoResult]
  /\ UNCHANGED <<call, syncState, orders, transactions, now, upstream, attempt>>

Start(p) ==
  /\ ~Active(p)
  /\ run' = [run EXCEPT ![p] = [InitRun EXCEPT !.pc = "getLast", !.startState = syncState]]
  /\ result' = [result EXCEPT ![p] = NoResult]
  /\ UNCHANGED <<call, syncState, orders, transactions, now, upstream, attempt>>

\* const lastUpdatedAt = await getLastUpdatedAt(); if (!lastUpdatedAt) return
\* await performInitialSync()
EnterMode(r, lastUpdatedAt) ==
  IF lastUpdatedAt = NullTs
    THEN [r EXCEPT !.pc = "resumeCheck", !.mode = "initial"]
    ELSE [r EXCEPT !.pc = "resumeCheck", !.mode = "incremental",
                   !.queryTs = ToShopifyTimestamp(lastUpdatedAt)]

GetLast(p) ==
  /\ run[p].pc = "getLast"
  /\ run' = [run EXCEPT ![p] = EnterMode(@, getLastUpdatedAt(syncState))]
  /\ UNCHANGED <<call, syncState, orders, transactions, now, upstream, result, attempt>>

\* const currentSyncState = await getSyncState("orders"); resume or start anew
ResumeCheck(p) ==
  /\ run[p].pc = "resumeCheck"
  /\ run' = [run EXCEPT ![p] =
       IF IsResumable(syncState)
         THEN [@ EXCEPT !.pc = "fetch", !.cursor = syncState.last_cursor, !.resumed = TRUE,
                       !.fromCheckpoint = attempt.checkpointed]
         ELSE [@ EXCEPT !.pc = "markRunning"]]
  /\ attempt' = IF IsResumable(syncState) /\ ~attempt.checkpointed
                  THEN [attempt EXCEPT !.clean = FALSE]
                  ELSE attempt
  /\ UNCHANGED <<call, syncState, orders, transactions, now, upstream, result>>

\* await updateSyncState("orders", {sync_status: "running", error_message: null})
MarkRunning_noWrite(p) ==
  /\ run[p].pc = "markRunning"
  /\ run' = [run EXCEPT ![p].pc = "fetch"]
  /\ attempt' = [NoAttempt EXCEPT !.mode = run[p].mode, !.ts = run[p].queryTs]
  /\ UNCHANGED <<call, syncState, orders, transactions, now, upstream, result>>

MarkRunning(p) ==
  /\ run[p].pc = "markRunning"
  /\ syncState' = updateSyncState(syncState,
                    [sync_status |-> "running", error_message |-> "none"], now)
  /\ run' = [run EXCEPT ![p].pc = "fetch",
                        ![p].statusWrites = Log(@, "running")]
  /\ attempt' = [NoAttempt EXCEPT !.mode = run[p].mode, !.ts = run[p].queryTs]
  /\ UNCHANGED <<call, orders, transactions, now, upstream, result>>

\* while (hasNextPage) { response = await shopifyFetch({after: cursor, query});
\* the incremental loop breaks on an empty page, the initial loop does not.
Fetch(p) ==
  /\ run[p].pc = "fetch"
  /\ \E response \in {FetchPage(run[p].mode, run[p].queryTs, run[p].cursor)} :
       LET r == run[p]
           got == [r EXCEPT !.fetched = Log(@, r.cursor), !.requests = Count(@ + 1),
                            !.emptyPage = @ \/ response.edges = {}]
       IN run' = [run EXCEPT ![p] =
            IF r.mode = "incremental" /\ response.edges = {}
              THEN [got EXCEPT !.pc = "complete", !.exit = "empty"]
              ELSE [got EXCEPT !.pc = "upsertOrders",
                               !.edges = response.edges,
                               !.nodes = IF response.edges = {} THEN <<>>
                                         ELSE [o \in response.edges |-> upstream[o]],
                               !.pageInfo = [hasNextPage |-> response.hasNextPage,
                                             endCursor |-> response.endCursor],
                               !.ordersOk = TRUE, !.transactionsOk = TRUE]]
  /\ UNCHANGED <<call, syncState, orders, transactions, now, upstream, result, attempt>>

\* The feed answers with a page, empty or not, whose pageInfo says
\* hasNextPage = true and endCursor = null. The code is that of Fetch.
FetchOdd(p) ==
  /\ run[p].pc = "fetch"
  /\ \E empty \in BOOLEAN :
       LET r == run[p]
           page == FetchPage(r.mode, r.queryTs, r.cursor)
           response == [edges |-> IF empty THEN {} ELSE page.edges,
                        hasNextPage |-> TRUE, endCursor |-> NoCursor]
           got == [r EXCEPT !.fetched = Log(@, r.cursor), !.requests = Count(@ + 1),
                            !.emptyPage = @ \/ response.edges = {}]
       IN run' = [run EXCEPT ![p] =
            IF r.mode = "incremental" /\ response.edges = {}
              THEN [got EXCEPT !.pc = "complete", !.exit = "empty"]
              ELSE [got EXCEPT !.pc = "upsertOrders",
                               !.edges = response.edges,
                               !.nodes = IF response.edges = {} THEN <<>>
                                         ELSE [o \in response.edges |-> upstream[o]],
                               !.pageInfo = [hasNextPage |-> response.hasNextPage,
                                             endCursor |-> response.endCursor],
                               !.ordersOk = TRUE, !.transactionsOk = TRUE]]
  /\ UNCHANGED <<call, syncState, orders, transactions, now, upstream, result, attempt>>

\* shopifyFetch throws (transport, HTTP status, GraphQL errors, no data), or
\* response.orders is missing and the loop throws. There is no second request.
FetchFail_retries(p) ==
  /\ run[p].pc = "fetch"
  /\ run[p].feedFailures < 2
  /\ run' = [run EXCEPT ![p].fetched = Log(@, run[p].cursor),
                        ![p].requests = Count(@ + 1),
                        ![p].feedFailures = Count(@ + 1)]
  /\ UNCHANGED <<call, syncState, orders, transactions, now, upstream, result, attempt>>
FetchFail(p) ==
  /\ run[p].pc = "fetch"
  /\ \E msg \in FetchErrors :
       run' = [run EXCEPT ![p] =
                 Throw([@ EXCEPT !.fetched = Log(@, run[p].cursor),
                                 !.requests = Count(@ + 1),
                                 !.feedFailures = Count(@ + 1)], msg)]
  /\ UNCHANGED <<call, syncState, orders, transactions, now, upstream, result, attempt>>

\* ------------------------------------------------------------ processBatch steps
\* First pass, then `await upsertOrders(ordersToInsert)`; the boolean it
\* returns is not looked at.
UpsertOrders(p) ==
  /\ run[p].pc = "upsertOrders"
  /\ LET toInsert == OrdersToInsert(run[p].edges)
     IN /\ orders' = UpsertOrderRows(orders, toInsert, run[p].nodes)
        /\ run' = [run EXCEPT ![p].pc = "resolveIds",
                              ![p].ordersToInsert = toInsert,
                              ![p].testOrdersSkipped = TestOrdersSkipped(run[p].edges),
                              ![p].ordersWritten = Count(@ + Cardinality(toInsert))]
        /\ attempt' = [attempt EXCEPT !.wrote = @ \cup toInsert]
  /\ UNCHANGED <<call, syncState, transactions, now, upstream, result>>

\* The store rejects the batch: upsertOrders logs the error and returns false.
UpsertOrdersFail(p) ==
  /\ run[p].pc = "upsertOrders"
  /\ OrdersToInsert(run[p].edges) # {}
  /\ run' = [run EXCEPT ![p].pc = "resolveIds",
                        ![p].ordersToInsert = OrdersToInsert(run[p].edges),
                        ![p].testOrdersSkipped = TestOrdersSkipped(run[p].edges),
                        ![p].ordersOk = FALSE,
                        ![p].writeFailed = TRUE]
  /\ attempt' = [attempt EXCEPT !.clean = FALSE]
  /\ UNCHANGED <<call, syncState, orders, transactions, now, upstream, result>>

\* const orderIdMap = await getOrderIdMapByShopifyIds(shopifyOrderIds)
ResolveIds(p) ==
  /\ run[p].pc = "resolveIds"
  /\ run' = [run EXCEPT ![p].pc = "upsertTransactions",
                        ![p].orderIdMap =
                           getOrderIdMapByShopifyIds(orders, run[p].ordersToInsert)]
  /\ UNCHANGED <<call, syncState, orders, transactions, now, upstream, result, attempt>>

\* processBatch returns the lengths of the two arrays; the loop adds them to
\* the totals and takes hasNextPage and cursor from pageInfo
\* (cursor = endCursor || undefined).
BatchDone(r, txs) ==
  [r EXCEPT !.pc = "checkpoint",
            !.totalOrders = Count(@ + Cardinality(r.ordersToInsert)),
            !.totalTransactions = Count(@ + Cardinality(txs)),
            !.hasNextPage = r.pageInfo.hasNextPage,
            !.cursor = r.pageInfo.endCursor,
            !.pages = Count(@ + 1),
            !.lastEndCursor = r.pageInfo.endCursor,
            !.lastCursorSeen = IF r.pageInfo.endCursor # NoCursor
                                 THEN r.pageInfo.endCursor ELSE @]

\* The orders of the page the second pass passes over:
\* `if (!dbOrderId) { continue }`.
UnresolvedOrders(r) ==
  {o \in r.edges : ~IsTest(o) /\ ~\E m \in r.orderIdMap : m[1] = o}

UpsertTransactions_throwsOnUnresolved(p) ==
  /\ run[p].pc = "upsertTransactions"
  /\ LET txs == TransactionsToInsert(run[p].edges, run[p].orderIdMap, run[p].nodes)
     IN IF UnresolvedOrders(run[p]) # {}
          THEN /\ run' = [run EXCEPT ![p] = Throw(@, "order not found")]
               /\ UNCHANGED transactions
          ELSE /\ transactions' = UpsertTransactionRows(transactions, txs)
               /\ run' = [run EXCEPT ![p] =
                     [BatchDone(@, txs) EXCEPT !.transactionsWritten = Count(@ + Cardinality(txs))]]
  /\ UNCHANGED <<call, syncState, orders, now, upstream, result, attempt>>

\* Second pass, then `await upsertTransactions(transactionsToInsert)`.
UpsertTransactions(p) ==
  /\ run[p].pc = "upsertTransactions"
  /\ \E txs \in {TransactionsToInsert(run[p].edges, run[p].orderIdMap, run[p].nodes)} :
        /\ transactions' = UpsertTransactionRows(transactions, txs)
        /\ run' = [run EXCEPT ![p] =
                     [BatchDone(@, txs) EXCEPT
                        !.transactionsWritten = Count(@ + Cardinality(txs)),
                        !.rewrote = @ \/ \E t \in transactions, x \in txs :
                                      /\ t.shopify_transaction_id = x.shopify_transaction_id
                                      /\ t.channel # x.channel]]
  /\ UNCHANGED <<call, syncState, orders, now, upstream, result, attempt>>

\* The store rejects the batch: upsertTransactions returns false.
UpsertTransactionsFail(p) ==
  /\ run[p].pc = "upsertTransactions"
  /\ LET txs == TransactionsToInsert(run[p].edges, run[p].orderIdMap, run[p].nodes)
     IN /\ txs # {}
        /\ run' = [run EXCEPT ![p] = [BatchDone(@, txs) EXCEPT !.transactionsOk = FALSE,
                                                               !.writeFailed = TRUE]]
  /\ attempt' = [attempt EXCEPT !.clean = FALSE]
  /\ UNCHANGED <<call, syncState, orders, transactions, now, upstream, result>>

\* ------------------------------------------------------------ the page loop, continued
\* The locals of the loop body go out of scope at the end of the iteration.
EndOfIteration(r) ==
  [r EXCEPT !.pc = IF r.hasNextPage THEN "fetch" ELSE "complete",
            !.exit = IF r.hasNextPage THEN r.exit ELSE "exhausted",
            !.edges = {}, !.nodes = <<>>, !.ordersToInsert = {}, !.orderIdMap = {},
            !.testOrdersSkipped = 0,
            !.pageInfo = [hasNextPage |-> FALSE, endCursor |-> NoCursor]]

\* await updateSyncState("orders", {last_cursor: cursor, sync_status: "running",
\* last_sync_at: now}); then the 100 ms pause and the loop test.
Checkpoint(p) ==
  /\ run[p].pc = "checkpoint"
  /\ syncState' = updateSyncState(syncState,
                    [last_cursor |-> run[p].cursor, sync_status |-> "running",
                     last_sync_at |-> now], now)
  /\ run' = [run EXCEPT ![p] =
               [EndOfIteration(@) EXCEPT !.statusWrites = Log(@, "running")]]
  /\ attempt' = [attempt EXCEPT !.checkpointed = @ \/ run[p].cursor # NoCursor]
  /\ UNCHANGED <<call, orders, transactions, now, upstream, result>>

\* After the loop: updateSyncState({sync_status: "completed", error_message:
\* null}), then return {success: true, ordersProcessed, transactionsProcessed}.
SuccessResult(r) ==
  [returned |-> TRUE, success |-> TRUE, ordersProcessed |-> r.totalOrders,
   transactionsProcessed |-> r.totalTransactions, error |-> "none"]

Complete_thenThrows(p) ==
  /\ run[p].pc = "complete"
  /\ syncState' = updateSyncState(syncState,
                    [sync_status |-> "completed", error_message |-> "none"], now)
  /\ run' = [run EXCEPT ![p] =
               Throw([@ EXCEPT !.statusWrites = Log(@, "completed")], "Unknown error")]
  /\ UNCHANGED <<call, orders, transactions, now, upstream, result, attempt>>
Complete(p) ==
  /\ run[p].pc = "complete"
  /\ syncState' = updateSyncState(syncState,
                    [sync_status |-> "completed", error_message |-> "none"], now)
  /\ run' = [run EXCEPT ![p].pc = "done",
                        ![p].statusWrites = Log(@, "completed")]
  /\ result' = [result EXCEPT ![p] = SuccessResult(run[p])]
  /\ UNCHANGED <<call, orders, transactions, now, upstream, attempt>>

\* catch (error): updateSyncState({sync_status: "failed", error_message}), then
\* return {success: false, ordersProcessed: 0, transactionsProcessed: 0, error}.
FailureResult_partialCounts(r) ==
  [returned |-> TRUE, success |-> FALSE, ordersProcessed |-> r.totalOrders,
   transactionsProcessed |-> r.totalTransactions, error |-> r.errorMessage]
FailureResult(r) ==
  [returned |-> TRUE, success |-> FALSE, ordersProcessed |-> 0,
   transactionsProcessed |-> 0, error |-> r.errorMessage]

Catch_rollsBack(p) ==
  /\ run[p].pc = "catch"
  /\ syncState' = updateSyncState(syncState,
                    [sync_status |-> "failed", error_message |-> run[p].errorMessage], now)
  /\ orders' = {r \in orders : r.shopify_order_id \notin attempt.wrote}
  /\ transactions' = {t \in transactions : t.shopify_transaction_id[1] \notin attempt.wrote}
  /\ run' = [run EXCEPT ![p].pc = "done",
                        ![p].statusWrites = Log(@, "failed")]
  /\ result' = [result EXCEPT ![p] = FailureResult(run[p])]
  /\ UNCHANGED <<call, now, upstream, attempt>>
Catch(p) ==
  /\ run[p].pc = "catch"
  /\ syncState' = updateSyncState(syncState,
                    [sync_status |-> "failed", error_message |-> run[p].errorMessage], now)
  /\ run' = [run EXCEPT ![p].pc = "done",
                        ![p].statusWrites = Log(@, "failed")]
  /\ result' = [result EXCEPT ![p] = FailureResult(run[p])]
  /\ UNCHANGED <<call, orders, transactions, now, upstream, attempt>>

\* ------------------------------------------------------------ environment
\* The process running the invocation is terminated between two awaits.
Crash(p) ==
  /\ Active(p)
  /\ run' = [run EXCEPT ![p] = [InitRun EXCEPT !.pc = "crashed"]]
  /\ UNCHANGED <<call, syncState, orders, transactions, now, upstream, result, attempt>>

Tick ==
  /\ now < MaxTime
  /\ now' = now + 1
  /\ UNCHANGED <<call, syncState, orders, transactions, upstream, run, result, attempt>>

\* The shop changes an order, possibly its channel: its updatedAt becomes the
\* current time.
Channels == {"Online Store", "Point of Sale"}
NumChanging == 1
Changing == 1..NumChanging

UpstreamUpdate(o) ==
  /\ o \in Orders
  /\ upstream[o].updated_at < now
  /\ \E ch \in Channels :
       upstream' = [upstream EXCEPT ![o] = [updated_at |-> now, channel |-> ch]]
  /\ UNCHANGED <<call, syncState, orders, transactions, now, run, result, attempt>>

\* ------------------------------------------------------------ failing sync_state and id reads/writes
\* getLastUpdatedAt: the query reports an error, the function returns null.
GetLastFail(p) ==
  /\ run[p].pc = "getLast"
  /\ run' = [run EXCEPT ![p] = EnterMode(@, NullTs)]
  /\ UNCHANGED <<call, syncState, orders, transactions, now, upstream, result, attempt>>

\* getSyncState: the query reports an error, the function returns null.
ResumeCheckFail(p) ==
  /\ run[p].pc = "resumeCheck"
  /\ run' = [run EXCEPT ![p].pc = "markRunning"]
  /\ UNCHANGED <<call, syncState, orders, transactions, now, upstream, result, attempt>>

\* getOrderIdMapByShopifyIds: the query reports an error, the function returns {}.
ResolveIdsFail(p) ==
  /\ run[p].pc = "resolveIds"
  /\ run[p].ordersToInsert # {}
  /\ run' = [run EXCEPT ![p].pc = "upsertTransactions", ![p].orderIdMap = {}]
  /\ UNCHANGED <<call, syncState, orders, transactions, now, upstream, result, attempt>>

\* updateSyncState: the update reports an error; nothing is written.
MarkRunningFail(p) ==
  /\ run[p].pc = "markRunning"
  /\ run' = [run EXCEPT ![p] = AfterFailedUpdate(@, [@ EXCEPT !.pc = "fetch"])]
  /\ attempt' = [NoAttempt EXCEPT !.mode = run[p].mode, !.ts = run[p].queryTs]
  /\ UNCHANGED <<call, syncState, orders, transactions, now, upstream, result>>

CheckpointFail(p) ==
  /\ run[p].pc = "checkpoint"
  /\ run' = [run EXCEPT ![p] = AfterFailedUpdate(@, EndOfIteration(@))]
  /\ UNCHANGED <<call, syncState, orders, transactions, now, upstream, result, attempt>>

CompleteFail(p) ==
  /\ run[p].pc = "complete"
  /\ IF updateSyncStateOnError = "throw"
       THEN /\ run' = [run EXCEPT ![p] = Throw(@, "sync state update failed")]
            /\ result' = result
       ELSE /\ run' = [run EXCEPT ![p].pc = "done"]
            /\ result' = [result EXCEPT ![p] = SuccessResult(run[p])]
  /\ UNCHANGED <<call, syncState, orders, transactions, now, upstream, attempt>>

\* A raise inside performInitialSync's catch block reaches the catch block of
\* syncOrders, which awaits it inside its try; a raise inside that one leaves
\* syncOrders.
CatchFail(p) ==
  /\ run[p].pc = "catch"
  /\ IF updateSyncStateOnError = "throw"
       THEN /\ run' = [run EXCEPT ![p] =
                 IF @.handler = "performInitialSync"
                   THEN [@ EXCEPT !.handler = "syncOrders",
                                  !.errorMessage = "sync state update failed"]
                   ELSE [@ EXCEPT !.pc = "thrown"]]
            /\ result' = result
       ELSE /\ run' = [run EXCEPT ![p].pc = "done"]
            /\ result' = [result EXCEPT ![p] = FailureResult(run[p])]
  /\ UNCHANGED <<call, syncState, orders, transactions, now, upstream, attempt>>

\* ------------------------------------------------------------ the readers
\* The rows a reader sees: row i of transactions belongs to order TxOrder(i)
\* and was processed on day Day(i); kind, status and amount are free. Orders
\* carry fixed order-level amounts, none of them is a test order.
Kinds == {"sale", "SALE", "capture", "refund", "change", "void"}
Statuses == {"success", "SUCCESS", "failure"}
Amounts == {-1, 2}
Days == 1..NumDays
TxRows == 1..NumTxRows
TxOrder(i) == (i + 1) \div 2
Day(i) == i
AnalyticsOrders == {TxOrder(i) : i \in TxRows}
CreatedDay(o) == Min({Day(i) : i \in {j \in TxRows : TxOrder(j) = o}})
ChannelOf(o) == IF o % 2 = 1 THEN "Online Store" ELSE "Point of Sale"
TaxOf(o) == o
DiscountsOf(o) == o + 1
ShippingOf(o) == o + 2
TotalOf(o) == 10 * o

\* String.prototype.toLowerCase on the values above
toLowerCase(str) ==
  CASE str = "SALE" -> "sale"
    [] str = "SUCCESS" -> "success"
    [] OTHER -> str

Abs(x) == IF x < 0 THEN 0 - x ELSE x

RECURSIVE Sum(_, _)
Sum(f, S) ==
  IF S = {} THEN 0
  ELSE LET x == CHOOSE y \in S : TRUE IN f[x] + Sum(f, S \ {x})

\* .gte("processed_at", from).lte("processed_at", to)
InRange(rows, fromDate, toDate) ==
  {i \in DOMAIN rows : fromDate <= Day(i) /\ Day(i) <= toDate}

\* getSalesByChannel: per channel, order-level amounts once per order of the
\* channel, then the transactions of the order.
getSalesByChannel(rows, fromDate, toDate) ==
  LET txs == InRange(rows, fromDate, toDate)
      orderIds == {TxOrder(i) : i \in txs}
      channels == {ChannelOf(o) : o \in orderIds}
  IN [c \in channels |->
       LET os == {o \in orderIds : ChannelOf(o) = c}
           ts == {i \in txs : TxOrder(i) \in os}
           ok(i) == toLowerCase(rows[i].status) = "success"
       IN [grossSales |->
             Sum([i \in ts |-> IF ok(i) /\ toLowerCase(rows[i].kind) \in {"sale", "capture"}
                                 THEN rows[i].amount ELSE 0], ts),
           refunds |->
             Sum([i \in ts |-> IF ok(i) /\ toLowerCase(rows[i].kind) \in {"refund", "change"}
                                 THEN Abs(rows[i].amount) ELSE 0], ts),
           taxes |-> Sum([o \in os |-> TaxOf(o)], os),
           discounts |-> Sum([o \in os |-> DiscountsOf(o)], os),
           shippingCharges |-> Sum([o \in os |-> ShippingOf(o)], os)]]

\* getRevenueBreakdown: the query keeps status = 'success' only; order-level
\* amounts are added at the first transaction of an order (processedOrders).
getRevenueBreakdown(rows, fromDate, toDate) ==
  LET txs == {i \in InRange(rows, fromDate, toDate) : rows[i].status = "success"}
      os == {TxOrder(i) : i \in txs}
  IN [grossRevenue |->
        Sum([i \in txs |-> IF toLowerCase(rows[i].kind) \in {"sale", "capture"}
                             THEN rows[i].amount ELSE 0], txs),
      refunds |->
        Sum([i \in txs |-> IF toLowerCase(rows[i].kind) \in {"refund", "change"}
                             THEN Abs(rows[i].amount) ELSE 0], txs),
      taxes |-> Sum([o \in os |-> TaxOf(o)], os),
      discounts |-> Sum([o \in os |-> DiscountsOf(o)], os),
      shipping |-> Sum([o \in os |-> ShippingOf(o)], os)]

\* getSalesOverTime: nothing in range gives dailyData: []; otherwise one row
\* per day of eachDayOfInterval, the day's aggregate or a zero row.
getSalesOverTime(rows, fromDate, toDate) ==
  LET txs == InRange(rows, fromDate, toDate)
      ok(i) == toLowerCase(rows[i].status) = "success"
      sales(ts) == Sum([i \in ts |-> IF ok(i) /\ toLowerCase(rows[i].kind) \in {"sale", "capture"}
                                       THEN rows[i].amount ELSE 0], ts)
      refunds(ts) == Sum([i \in ts |-> IF ok(i) /\ toLowerCase(rows[i].kind) = "refund"
                                         THEN Abs(rows[i].amount) ELSE 0], ts)
      on(d) == {i \in txs : Day(i) = d}
  IN IF txs = {}
       THEN [dailyData |-> <<>>, totals |-> [grossSales |-> 0, refunds |-> 0]]
       ELSE [dailyData |->
               [k \in 1..(toDate - fromDate + 1) |->
                  LET d == fromDate + k - 1
                  IN [date |-> d, grossSales |-> sales(on(d)), refunds |-> refunds(on(d))]],
             totals |-> [grossSales |-> sales(txs), refunds |-> refunds(txs)]]

\* getOrdersOverTime: the same over the orders created in the range.
getOrdersOverTime(fromDate, toDate) ==
  LET os == {o \in AnalyticsOrders : fromDate <= CreatedDay(o) /\ CreatedDay(o) <= toDate}
      on(d) == {o \in os : CreatedDay(o) = d}
  IN IF os = {}
       THEN [dailyData |-> <<>>, totals |-> [totalOrders |-> 0, totalValue |-> 0]]
       ELSE [dailyData |->
               [k \in 1..(toDate - fromDate + 1) |->
                  LET d == fromDate + k - 1
                  IN [date |-> d, totalOrders |-> Cardinality(on(d)),
                      totalValue |-> Sum([o \in on(d) |-> TotalOf(o)], on(d))]],
             totals |-> [totalOrders |-> Cardinality(os),
                         totalValue |-> Sum([o \in os |-> TotalOf(o)], os)]]

\* getIndividualOrders: the summary over all transactions in the range.
getIndividualOrders(rows, fromDate, toDate) ==
  LET txs == InRange(rows, fromDate, toDate)
      ok(i) == toLowerCase(rows[i].status) = "success"
  IN [totalSales |->
        Sum([i \in txs |-> IF ok(i) /\ toLowerCase(rows[i].kind) \in {"sale", "capture"}
                             THEN rows[i].amount ELSE 0], txs),
      totalRefunds |->
        Sum([i \in txs |-> IF ok(i) /\ toLowerCase(rows[i].kind) \in {"refund", "change"}
                             THEN rows[i].amount ELSE 0], txs)]

\* getChannelAnalytics: .eq("status", "success"), kind === "sale" and
\* kind === "refund", per source_name.
getChannelAnalytics(rows, fromDate, toDate) ==
  LET txs == {i \in InRange(rows, fromDate, toDate) : rows[i].status = "success"}
      channels == {ChannelOf(TxOrder(i)) : i \in txs}
  IN [c \in channels |->
       LET ts == {i \in txs : ChannelOf(TxOrder(i)) = c}
           sales == Sum([i \in ts |-> IF rows[i].kind = "sale" THEN rows[i].amount ELSE 0], ts)
           refunds == Sum([i \in ts |-> IF rows[i].kind = "refund" THEN rows[i].amount ELSE 0], ts)
       IN [net_sales |-> sales - refunds, net_returns |-> refunds]]

\* A reader is asked about [fromDate, toDate] over some rows of transactions.
InitReaders ==
  /\ InitSync
  /\ call \in {[fn |-> "none", rows |-> rows, fromDate |-> f, toDate |-> t] :
                 rows \in [TxRows -> [kind : Kinds, status : Statuses, amount : Amounts]],
                 f \in Days, t \in Days}
  /\ call.fromDate <= call.toDate

\* The request is answered: call.out is what the reader returns.
Answered(fn, out) ==
  [fn |-> fn, rows |-> call.rows, fromDate |-> call.fromDate,
   toDate |-> call.toDate, out |-> out]

CallGetSalesByChannel ==
  /\ call.fn = "none"
  /\ call' = Answered("getSalesByChannel", getSalesByChannel(call.rows, call.fromDate, call.toDate))
  /\ UNCHANGED syncVars

CallGetRevenueBreakdown ==
  /\ call.fn = "none"
  /\ call' = Answered("getRevenueBreakdown", getRevenueBreakdown(call.rows, call.fromDate, call.toDate))
  /\ UNCHANGED syncVars

CallGetSalesOverTime ==
  /\ call.fn = "none"
  /\ call' = Answered("getSalesOverTime", getSalesOverTime(call.rows, call.fromDate, call.toDate))
  /\ UNCHANGED syncVars

CallGetOrdersOverTime ==
  /\ call.fn = "none"
  /\ call' = Answered("getOrdersOverTime", getOrdersOverTime(call.fromDate, call.toDate))
  /\ UNCHANGED syncVars

CallGetIndividualOrders ==
  /\ call.fn = "none"
  /\ call' = Answered("getIndividualOrders", getIndividualOrders(call.rows, call.fromDate, call.toDate))
  /\ UNCHANGED syncVars

CallGetChannelAnalytics ==
  /\ call.fn = "none"
  /\ call' = Answered("getChannelAnalytics", getChannelAnalytics(call.rows, call.fromDate, call.toDate))
  /\ UNCHANGED syncVars

NextReaders ==
  \/ CallGetSalesByChannel \/ CallGetRevenueBreakdown \/ CallGetSalesOverTime
  \/ CallGetOrdersOverTime \/ CallGetIndividualOrders \/ CallGetChannelAnalytics

SpecReaders == InitReaders /\ [][NextReaders]_vars

\* ------------------------------------------------------------ the state tracker, called directly
\* The updates the orchestrator passes: a status with an error message, or a
\* checkpoint, whose last_sync_at the caller read from the clock before the
\* call.
TrackerUpdates ==
  {[sync_status |-> st, error_message |-> e] :
     st \in {"running", "completed", "failed"}, e \in {"none", "Unknown error"}}
  \cup {[last_cursor |-> c, sync_status |-> "running", last_sync_at |-> ts] :
          c \in 0..NumOrders, ts \in 0..MaxTime}

InitTracker ==
  /\ InitSync
  /\ call \in {[fn |-> "none", row |-> row, updates |-> u, t |-> t] :
                 row \in [last_cursor : 0..NumOrders, last_sync_at : 0..MaxTime,
                          sync_status : {"running", "completed", "failed"},
                          error_message : {"none", "Unknown error"}],
                 u \in TrackerUpdates, t \in 0..MaxTime}
  /\ "last_sync_at" \in DOMAIN call.updates => call.updates.last_sync_at <= call.t
  /\ call.row.last_sync_at <= call.t

CallUpdateSyncState ==
  /\ call.fn = "none"
  /\ call' = [fn |-> "updateSyncState", row |-> call.row, updates |-> call.updates,
               t |-> call.t, out |-> updateSyncState(call.row, call.updates, call.t)]
  /\ UNCHANGED syncVars

NextTracker == CallUpdateSyncState

SpecTracker == InitTracker /\ [][NextTracker]_vars

\* ------------------------------------------------------------ a reader's scan
\* The readers collect the transactions of the interval page by page,
\* .order("processed_at").range((page - 1) * pageSize, page * pageSize - 1),
\* while a sync may be committing rows. A row is named by its processed_at.
NumScanRows == 5
ScanPageSize == 2
ScanRows == 1..NumScanRows

\* The rows at offsets lo..hi of the table in ascending processed_at.
Range(table, lo, hi) ==
  {k \in table : LET offset == Cardinality({x \in table : x < k})
                 IN lo <= offset /\ offset <= hi}

InitScan ==
  /\ InitSync
  /\ call \in {[fn |-> "scan", table |-> t, before |-> t, page |-> 1, hasMore |-> TRUE,
                 allTransactions |-> [k \in ScanRows |-> 0]] : t \in SUBSET ScanRows}

\* One turn of `while (hasMore)`.
ScanPage ==
  /\ call.fn = "scan" /\ call.hasMore
  /\ LET pageData == Range(call.table, (call.page - 1) * ScanPageSize,
                           call.page * ScanPageSize - 1)
     IN call' = IF pageData # {}
                  THEN [call EXCEPT
                          !.allTransactions =
                             [k \in ScanRows |-> @[k] + IF k \in pageData THEN 1 ELSE 0],
                          !.hasMore = Cardinality(pageData) = ScanPageSize,
                          !.page = @ + 1]
                  ELSE [call EXCEPT !.hasMore = FALSE]
  /\ UNCHANGED syncVars

\* A sync commits a new row of transactions between two pages of the scan.
ScanInsert ==
  /\ call.fn = "scan" /\ call.hasMore
  /\ \E k \in ScanRows \ call.table : call' = [call EXCEPT !.table = @ \cup {k}]
  /\ UNCHANGED syncVars

NextScan == ScanPage \/ ScanInsert

SpecScan == InitScan /\ [][NextScan]_vars

\* ------------------------------------------------------------ specifications
Step(p) ==
  \/ Start(p) \/ GetLast(p) \/ ResumeCheck(p) \/ MarkRunning(p)
  \/ Fetch(p) \/ FetchFail(p)
  \/ UpsertOrders(p) \/ UpsertOrdersFail(p) \/ ResolveIds(p)
  \/ UpsertTransactions(p) \/ UpsertTransactionsFail(p)
  \/ Checkpoint(p) \/ Complete(p) \/ Catch(p)
  \/ Crash(p)

StoreFault(p) ==
  \/ GetLastFail(p) \/ ResumeCheckFail(p) \/ ResolveIdsFail(p)
  \/ MarkRunningFail(p) \/ CheckpointFail(p) \/ CompleteFail(p) \/ CatchFail(p)

\* One trigger: invocations follow one another, each may crash, the feed and
\* the order and transaction writes may fail.
Next == Tick \/ Step("p1")

Spec == Init /\ [][Next]_vars

\* The same with the clock standing still, and every read and write of
\* sync_state and the id lookup may fail as well.
NextFaults == Step("p1") \/ StoreFault("p1")

SpecFaults == Init /\ [][NextFaults]_vars

\* Runs that neither fail nor crash, one after the other, while the shop
\* changes orders during and between them.
NextUpdates ==
  \/ Tick
  \/ \E o \in Changing : UpstreamUpdate(o)
  \/ Start("p1") \/ GetLast("p1") \/ ResumeCheck("p1") \/ MarkRunning("p1")
  \/ Fetch("p1") \/ UpsertOrders("p1") \/ ResolveIds("p1")
  \/ UpsertTransactions("p1") \/ Checkpoint("p1") \/ Complete("p1")

SpecUpdates == Init /\ [][NextUpdates]_vars

\* Two triggers at once (POST /api/sync twice): the invocations interleave at
\* their awaits; no crash and no failure of the feed or the store.
Continue(p) ==
  \/ GetLast(p) \/ ResumeCheck(p) \/ MarkRunning(p)
  \/ Fetch(p) \/ UpsertOrders(p) \/ ResolveIds(p)
  \/ UpsertTransactions(p) \/ Checkpoint(p) \/ Complete(p)

NextConcurrent ==
  \/ Start("p1") \/ Continue("p1")
  \/ Start("p2") \/ Continue("p2")

SpecConcurrent == Init /\ [][NextConcurrent]_vars

\* One trigger and a feed that may answer with hasNextPage = true and a null
\* endCursor, or fail; the process does not die and the store does not fail.
\* An invocation that has started takes its next step sooner or later: each
\* step is an await that settles.
OddStep(p) == Continue(p) \/ FetchOdd(p) \/ FetchFail(p) \/ Catch(p)

NextOddFeed == Start("p1") \/ OddStep("p1")

SpecOddFeed == Init /\ [][NextOddFeed]_vars /\ WF_vars(OddStep("p1"))

\* ------------------------------------------------------------ properties
OrderIds == {row.shopify_order_id : row \in orders}
TransactionIds == {row.shopify_transaction_id : row \in transactions}
Finished(p) == run[p].pc = "done" /\ result[p].returned

\* What one uninterrupted run of the attempt's query writes.
ExpectedOrders == {o \in Matches(attempt.mode, attempt.ts) : ~IsTest(o)}

\* C1. An invocation that starts while the row is {running, last_cursor: C},
\* C non-null, issues its first fetch with after = C and no fetch before C.
C1_ResumesFromSavedCursor ==
  \A p \in Procs :
    LET r == run[p] IN
    (r.startState.sync_status = "running" /\ r.startState.last_cursor # NoCursor)
      => \A i \in DOMAIN r.fetched :
           /\ r.fetched[i] >= r.startState.last_cursor
           /\ i = 1 => r.fetched[i] = r.startState.last_cursor

C1_Witness ==
  \E p \in Procs :
    /\ run[p].startState.sync_status = "running"
    /\ run[p].startState.last_cursor # NoCursor
    /\ run[p].pc = "upsertOrders"
    /\ run[p].edges # {}
    /\ Len(run[p].fetched) = 1

\* C2. The checkpoint of a page is written only after upsertOrders and
\* upsertTransactions of that page both succeeded.
C2_CheckpointOnlyAfterWrites ==
  [][\A p \in Procs :
       (run[p].pc = "checkpoint" /\ syncState'.last_cursor # syncState.last_cursor)
         => (run[p].ordersOk /\ run[p].transactionsOk)]_vars

\* C3. An invocation in which upsertOrders or upsertTransactions reported a
\* failure returns {success: false, error} and leaves sync_status = failed
\* with an error message.
C3_WriteFailureIsFatal ==
  \A p \in Procs :
    (Finished(p) /\ run[p].writeFailed)
      => /\ ~result[p].success
         /\ result[p].error # "none"
         /\ syncState.sync_status = "failed"
         /\ syncState.error_message # "none"

\* C4. An invocation that starts while the row is {failed, last_cursor: C},
\* C non-null, issues its first fetch with after = C.
C4_ResumesAfterFailure ==
  \A p \in Procs :
    LET r == run[p] IN
    (r.startState.sync_status = "failed" /\ r.startState.last_cursor # NoCursor
       /\ r.fetched # <<>>)
      => r.fetched[1] = r.startState.last_cursor

\* C5. A run that resumes from the checkpoint a crashed run left fetches only
\* pages after it, and when it succeeds the crashed run and it have written
\* the orders and transactions one uninterrupted run of the crashed run's
\* query writes.
C5_CrashResumeEquivalence ==
  \A p \in Procs :
    LET r == run[p] IN
    (Finished(p) /\ result[p].success /\ r.resumed /\ r.fromCheckpoint /\ attempt.clean)
      => /\ \A i \in DOMAIN r.fetched : r.fetched[i] >= r.startState.last_cursor
         /\ attempt.wrote = ExpectedOrders
         /\ \A o \in ExpectedOrders : TxOf(o) \subseteq TransactionIds

C8_NoExceptionEscapes ==
  \A p \in Procs :
    /\ run[p].pc # "thrown"
    /\ run[p].pc = "done"
         => /\ result[p].returned
            /\ result[p].success <=> result[p].error = "none"

\* The write of `failed` in the catch block failed too, and the invocation
\* still returned its failure result.
C8_Witness ==
  \E p \in Procs :
    /\ Finished(p)
    /\ ~result[p].success
    /\ syncState.sync_status # "failed"

\* C9 as stated. A failure result carries the counts accumulated so far.
C9_PartialCounts ==
  \A p \in Procs :
    (Finished(p) /\ ~result[p].success)
      => /\ result[p].ordersProcessed = run[p].totalOrders
         /\ result[p].transactionsProcessed = run[p].totalTransactions

\* C9, amended. A failure result carries ordersProcessed = 0 and
\* transactionsProcessed = 0, whatever the pages before the failure wrote.
C9_FailureCountsAreZero ==
  \A p \in Procs :
    (Finished(p) /\ ~result[p].success)
      => /\ result[p].ordersProcessed = 0
         /\ result[p].transactionsProcessed = 0

C9_Witness ==
  \E p \in Procs :
    /\ Finished(p) /\ ~result[p].success
    /\ run[p].pages >= 1
    /\ run[p].totalOrders > 0
    /\ run[p].totalTransactions > 0

\* C10. No row of orders and no row of transactions comes from an upstream
\* order with test = true; such orders are only counted.
C10_NoTestRows ==
  /\ \A row \in orders : ~IsTest(row.shopify_order_id) /\ ~row.test
  /\ \A row \in transactions : ~IsTest(row.shopify_transaction_id[1])
  /\ \A p \in Procs :
       run[p].pc \in {"resolveIds", "upsertTransactions", "checkpoint"}
         => /\ run[p].testOrdersSkipped = Cardinality({o \in run[p].edges : IsTest(o)})
            /\ \A o \in run[p].ordersToInsert : ~IsTest(o)

\* A page with a test order and a live order has been written.
C10_Witness ==
  \E p \in Procs :
    /\ run[p].pc = "checkpoint"
    /\ run[p].testOrdersSkipped >= 1
    /\ \E o \in run[p].edges : IsTest(o) /\ TxOf(o) # {}
    /\ \E o \in run[p].edges : o \in OrderIds /\ TxOf(o) \subseteq TransactionIds

\* C11. Every row of transactions has the id of a row of orders as its
\* order_id, the row of the order the transaction belongs to; rows of orders
\* come from completed upsertOrders calls only and are never deleted, so that
\* call came first. The id lookup of a page runs after the page's upsertOrders
\* returned and resolves only orders of that call.
C11_OrderBeforeTransaction ==
  /\ \A t \in transactions :
       \E o \in orders : /\ o.id = t.order_id
                         /\ o.shopify_order_id = t.shopify_transaction_id[1]
  /\ \A p \in Procs :
       run[p].pc \in {"upsertTransactions", "checkpoint"}
         => \A m \in run[p].orderIdMap :
              /\ m[1] \in run[p].ordersToInsert
              /\ \E o \in orders : o.id = m[2] /\ o.shopify_order_id = m[1]

\* A page whose order was stored, resolved, and whose transactions were stored.
C11_Witness ==
  \E p \in Procs :
    /\ run[p].pc = "checkpoint"
    /\ run[p].orderIdMap # {}
    /\ \E m \in run[p].orderIdMap :
         \E t \in transactions : t.order_id = m[2] /\ t.shopify_transaction_id[1] = m[1]

\* C12. When processBatch stores a page whose orders are all in the store
\* already, the number of rows of orders and the id of every row are what they
\* were, and the rows of the page hold the values of this application; the
\* same for the page's transactions.
C12_IdempotentReplay ==
  [][\A p \in Procs :
       /\ (/\ run[p].pc = "upsertOrders" /\ run'[p].pc = "resolveIds" /\ run'[p].ordersOk
           /\ OrdersToInsert(run[p].edges) \subseteq OrderIds)
            => /\ Cardinality(orders') = Cardinality(orders)
               /\ {<<r.id, r.shopify_order_id>> : r \in orders'}
                    = {<<r.id, r.shopify_order_id>> : r \in orders}
               /\ \A r \in orders' :
                    r.shopify_order_id \in OrdersToInsert(run[p].edges)
                      => r.updated_at = run[p].nodes[r.shopify_order_id].updated_at
       /\ (/\ run[p].pc = "upsertTransactions" /\ run'[p].pc = "checkpoint"
           /\ run'[p].transactionsOk
           /\ \A t \in TransactionsToInsert(run[p].edges, run[p].orderIdMap, run[p].nodes) :
                t.shopify_transaction_id \in TransactionIds)
            => /\ {<<t.id, t.shopify_transaction_id, t.order_id>> : t \in transactions'}
                    = {<<t.id, t.shopify_transaction_id, t.order_id>> : t \in transactions}
               /\ \A t \in transactions' :
                    t.shopify_transaction_id[1] \in OrdersToInsert(run[p].edges)
                      => t.channel = run[p].nodes[t.shopify_transaction_id[1]].channel]_vars

\* A page is stored again after the shop changed one of its orders: the order
\* has its new value and its transactions are there from the first time.
C12_Witness ==
  \E p \in Procs :
    /\ run[p].pc = "resolveIds" /\ run[p].ordersOk
    /\ \E r \in orders :
         /\ r.shopify_order_id \in run[p].ordersToInsert
         /\ r.updated_at > 0
         /\ r.updated_at = upstream[r.shopify_order_id].updated_at
         /\ TxOf(r.shopify_order_id) # {}
         /\ TxOf(r.shopify_order_id) \subseteq TransactionIds

\* C13. The sync_status values one invocation stores are `running` any number
\* of times, then, when it returns, one `completed` or one `failed`; nothing
\* is stored after that one.
C13_StatusMonotonic ==
  \A p \in Procs :
    LET w == run[p].statusWrites IN
    /\ \A i \in 1..(Len(w) - 1) : w[i] = "running"
    /\ Finished(p) => Len(w) >= 1 /\ w[Len(w)] \in {"completed", "failed"}
    /\ ~Finished(p) => \A i \in DOMAIN w : w[i] = "running"

C13_Witness ==
  \E p \in Procs :
    /\ Finished(p)
    /\ run[p].statusWrites = <<"running", "running", "failed">>

\* C14. A call of shopifyFetch is one request. After a request failed the
\* invocation sends no other request and fetches no other page; it stores
\* sync_status = failed with the message of the failure and returns it.
C14_FeedFailureEndsAttempt ==
  \A p \in Procs :
    LET r == run[p] IN
    /\ r.requests = Len(r.fetched)
    /\ r.feedFailures >= 1
         => /\ r.feedFailures = 1
            /\ r.pc \in {"catch", "done"}
            /\ r.errorMessage \in FetchErrors
            /\ r.requests = r.pages + 1
            /\ Finished(p)
                 => /\ syncState.sync_status = "failed"
                    /\ syncState.error_message = r.errorMessage
                    /\ ~result[p].success
                    /\ result[p].error = r.errorMessage

\* The second page could not be fetched.
C14_Witness ==
  \E p \in Procs :
    /\ Finished(p)
    /\ run[p].feedFailures = 1
    /\ run[p].pages = 1
    /\ run[p].hasNextPage
    /\ syncState.sync_status = "failed"

\* C15. The failure path (the throw and the catch block) leaves every row of
\* orders and of transactions as it is; it stores the sync_state row only.
C15_NoRollback ==
  [][\A p \in Procs :
       (run[p].pc = "catch" \/ run'[p].pc = "catch")
         => orders' = orders /\ transactions' = transactions]_vars

\* A run failed after it had stored a page, and the page is still there.
C15_Witness ==
  \E p \in Procs :
    /\ Finished(p) /\ ~result[p].success
    /\ run[p].pages >= 1
    /\ run[p].ordersWritten > 0 /\ run[p].transactionsWritten > 0
    /\ attempt.wrote # {} /\ attempt.wrote \subseteq OrderIds
    /\ \A o \in attempt.wrote : TxOf(o) \subseteq TransactionIds

\* C16. A run that returns success reports as ordersProcessed the number of
\* order rows it stored and as transactionsProcessed the number of transaction
\* rows it stored.
C16_ProcessedCounts ==
  \A p \in Procs :
    (Finished(p) /\ result[p].success)
      => /\ result[p].ordersProcessed = run[p].ordersWritten
         /\ result[p].transactionsProcessed = run[p].transactionsWritten

\* What a transaction adds to sales and to refunds: its amount when
\* lower(kind) is sale or capture, the absolute value of its amount when
\* lower(kind) is refund or change, and lower(status) is success in both.
AddsToSales(tx) ==
  IF toLowerCase(tx.kind) \in {"sale", "capture"} /\ toLowerCase(tx.status) = "success"
    THEN tx.amount ELSE 0
AddsToRefunds(tx) ==
  IF toLowerCase(tx.kind) \in {"refund", "change"} /\ toLowerCase(tx.status) = "success"
    THEN Abs(tx.amount) ELSE 0
CalledRows == InRange(call.rows, call.fromDate, call.toDate)
ExpectedSales == Sum([i \in CalledRows |-> AddsToSales(call.rows[i])], CalledRows)
ExpectedRefunds == Sum([i \in CalledRows |-> AddsToRefunds(call.rows[i])], CalledRows)

\* C17. Every reader reports as sales the sum of what the transactions in the
\* interval add to sales, and as refunds the sum of what they add to refunds,
\* whatever the letter case of the stored kind and status.
C17_SalesAndRefunds ==
  LET out == call.out
      chans == DOMAIN call.out
  IN /\ call.fn = "getSalesByChannel"
          => /\ Sum([c \in chans |-> out[c].grossSales], chans) = ExpectedSales
             /\ Sum([c \in chans |-> out[c].refunds], chans) = ExpectedRefunds
     /\ call.fn = "getRevenueBreakdown"
          => out.grossRevenue = ExpectedSales /\ out.refunds = ExpectedRefunds
     /\ call.fn = "getSalesOverTime"
          => /\ out.totals.grossSales = ExpectedSales
             /\ out.totals.refunds = ExpectedRefunds
     /\ call.fn = "getIndividualOrders"
          => out.totalSales = ExpectedSales /\ out.totalRefunds = ExpectedRefunds
     /\ call.fn = "getChannelAnalytics"
          => /\ Sum([c \in chans |-> out[c].net_sales + out[c].net_returns], chans)
                  = ExpectedSales
             /\ Sum([c \in chans |-> out[c].net_returns], chans) = ExpectedRefunds

\* C18. getSalesByChannel and getRevenueBreakdown add the tax, discount and
\* shipping amounts of every order that has a transaction in the interval to
\* their totals once.
C18_OrderAmountsOnce ==
  LET out == call.out
      chans == DOMAIN call.out
      os == {TxOrder(i) : i \in CalledRows}
      taxes == Sum([o \in os |-> TaxOf(o)], os)
      discounts == Sum([o \in os |-> DiscountsOf(o)], os)
      shipping == Sum([o \in os |-> ShippingOf(o)], os)
  IN /\ call.fn = "getSalesByChannel"
          => /\ Sum([c \in chans |-> out[c].taxes], chans) = taxes
             /\ Sum([c \in chans |-> out[c].discounts], chans) = discounts
             /\ Sum([c \in chans |-> out[c].shippingCharges], chans) = shipping
     /\ call.fn = "getRevenueBreakdown"
          => out.taxes = taxes /\ out.discounts = discounts /\ out.shipping = shipping

\* C19. The dailyData of getSalesOverTime and getOrdersOverTime has one row
\* for every day of the interval, in ascending order of date.
C19_OneRowPerDay ==
  call.fn \in {"getSalesOverTime", "getOrdersOverTime"}
    => /\ Len(call.out.dailyData) = call.toDate - call.fromDate + 1
       /\ \A k \in DOMAIN call.out.dailyData :
            call.out.dailyData[k].date = call.fromDate + k - 1

\* C20. updateSyncState stores the caller's last_sync_at when the updates
\* hold one, the current time otherwise.
C20_CallerTimestampWins ==
  call.fn = "updateSyncState"
    => call.out.last_sync_at =
         IF "last_sync_at" \in DOMAIN call.updates
           THEN call.updates.last_sync_at ELSE call.t

\* ------------------------------------------------------------ C21..C30
NumTxOf == [o \in Orders |-> NumTx(o)]

C22_SnapshotKept ==
  [][\A t \in transactions :
       \E u \in transactions' :
         u.shopify_transaction_id = t.shopify_transaction_id /\ u.channel = t.channel]_vars

\* C22, amended. The channel fields processBatch writes on a transaction are
\* those of its order as the page delivered it, which are also the ones it
\* wrote on the order; a transaction in the store keeps its channel fields
\* only until a page brings its order again, and then takes the order's
\* channel fields of that page.
C22_ChannelFollowsOrder ==
  [][/\ transactions' # transactions
         => \E p \in Procs : run[p].pc = "upsertTransactions" /\ run'[p].pc = "checkpoint"
     /\ \A p \in Procs :
          (run[p].pc = "upsertTransactions" /\ run'[p].pc = "checkpoint"
           /\ run'[p].transactionsOk)
            => \A t \in transactions' :
                 LET o == t.shopify_transaction_id[1]
                 IN IF o \in OrdersToInsert(run[p].edges) \ UnresolvedOrders(run[p])
                      THEN /\ t.channel = run[p].nodes[o].channel
                           /\ \A r \in orders :
                                r.shopify_order_id = o => r.channel = t.channel
                      ELSE t \in transactions]_vars

\* A later sync stored a page whose order had changed its channel, and the
\* order's transactions in the store now carry the new channel.
C22_Witness ==
  \E p \in Procs :
    /\ run[p].pc = "checkpoint" /\ run[p].rewrote
    /\ run[p].startState.sync_status = "completed"
    /\ \E o \in run[p].edges, t \in transactions :
         /\ t.shopify_transaction_id[1] = o
         /\ t.channel = run[p].nodes[o].channel
         /\ t.channel # "Online Store"

\* C23. While another invocation of syncOrders is between its start and its
\* return, an invocation that is not running can start and one that is running
\* can take its next step, whatever the row of sync_state says: the running
\* marker rejects and blocks nobody.
C23_NoMutualExclusion ==
  \A p \in Procs :
    (\E q \in Procs \ {p} : Active(q))
      => IF Active(p) THEN ENABLED Continue(p) ELSE ENABLED Start(p)

\* Two invocations were in their page loops together, both fetched and wrote
\* pages; one has returned success after writing completed, and a checkpoint
\* of the other, which is still paging, has set the row back to running.
C23_Witness ==
  \E p, q \in Procs :
    /\ p # q
    /\ Finished(p) /\ result[p].success /\ run[p].pages >= 1
    /\ run[p].ordersWritten >= 1
    /\ run[q].pc = "fetch" /\ run[q].pages >= 1 /\ run[q].ordersWritten >= 1
    /\ run[q].startState.sync_status = "running"
    /\ syncState.sync_status = "running"

\* C24. An invocation that does not resume, in either mode, issues each of its
\* page fetches with the row of sync_state reading running and no error
\* message, its first write of the status having been `running`; and when the
\* process dies after a fetch was issued, the row reads running afterwards.
C24_MarkerBeforeFetch ==
  [][\A p \in Procs :
       ~run[p].resumed
         => /\ (run[p].pc = "fetch" /\ run'[p].requests > run[p].requests)
                 => /\ syncState.sync_status = "running"
                    /\ syncState.error_message = "none"
                    /\ Len(run[p].statusWrites) >= 1
                    /\ run[p].statusWrites[1] = "running"
            /\ (run[p].requests >= 1 /\ Active(p) /\ run'[p].pc = "crashed")
                 => syncState'.sync_status = "running"]_vars

\* The process died after an attempt that began with the marker had fetched
\* and stored a page, before its first checkpoint: the row reads running.
C24_Witness ==
  \E p \in Procs :
    /\ run[p].pc = "crashed"
    /\ attempt.clean /\ ~attempt.checkpointed /\ attempt.wrote # {}
    /\ syncState.sync_status = "running"

\* C25. Once a page of an invocation had no records, in either mode, the
\* invocation issues no further fetch and does not fail: it is on its way out
\* of the loop, and when it returns it returns success with the row reading
\* completed, whatever the page's hasNextPage said.
C25_EmptyPageEnds ==
  \A p \in Procs :
    run[p].emptyPage
      => /\ run[p].pc \in {"upsertOrders", "resolveIds", "upsertTransactions",
                            "checkpoint", "complete", "done"}
         /\ run[p].pc = "done"
              => result[p].success /\ syncState.sync_status = "completed"

\* C29. With a process that does not die, every invocation of syncOrders that
\* has started returns sooner or later, also when the feed answers with
\* hasNextPage = true and a null endCursor.
C29_Terminates ==
  \A p \in {"p1"} : (run[p].pc = "getLast") ~> (run[p].pc = "done")

\* C26. An invocation that takes the resume branch starts from a cursor that a
\* checkpoint of the interrupted attempt wrote: the attempt that set the row to
\* running had checkpointed a page before it was interrupted.
C26_ResumeCursorOfAttempt ==
  \A p \in Procs :
    (run[p].resumed /\ Len(run[p].fetched) >= 1)
      => /\ run[p].fromCheckpoint
         /\ run[p].fetched[1] # NoCursor

\* C27. An invocation that resumes from a cursor the interrupted attempt
\* checkpointed pages in the mode of that attempt and with its filter.
C27_ResumeKeepsMode ==
  \A p \in Procs :
    (run[p].resumed /\ run[p].fromCheckpoint)
      => /\ run[p].mode = attempt.mode
         /\ run[p].mode = "incremental" => run[p].queryTs = attempt.ts

\* The replica's row of order o carries the order's latest update.
Reflected(o) ==
  \E r \in orders : r.shopify_order_id = o /\ r.updated_at = upstream[o].updated_at

\* C28. When every sync completes, each sync starts with a filter that selects
\* every non-test order whose latest update the replica does not reflect yet,
\* also the updates that landed while the previous sync was in progress; so
\* the sync that starts after an update brings it to the replica.
C28_NoLostUpdate ==
  \A p \in Procs :
    run[p].pc = "markRunning"
      => \A o \in Orders :
           (~IsTest(o) /\ ~Reflected(o)) => o \in Matches(run[p].mode, run[p].queryTs)

\* C30. When a reader's scan has ended, every row that was in the table when
\* the scan started is in the working set once, whatever a sync inserted in
\* the meantime; and when nothing was inserted the working set is the table.
C30_ScanExactlyOnce ==
  (call.fn = "scan" /\ ~call.hasMore)
    => /\ \A k \in call.before : call.allTransactions[k] = 1
       /\ call.table = call.before
            => \A k \in ScanRows :
                 call.allTransactions[k] = IF k \in call.table THEN 1 ELSE 0
====
